---- MODULE Spec2Model ----
(***************************************************************************)
(* Model of train_vqvae.py: the experiment-directory set-up of the         *)
(* __main__ block, main(args) with its epoch loop (training phase,         *)
(* evaluation phase, logging, checkpoint), and the vector quantizer's      *)
(* nearest-code selection.                                                 *)
(*                                                                         *)
(* Tensors are modelled symbolically.  A batch is a record naming the      *)
(* loader, the epoch in which it was fetched, its position and the number  *)
(* of images it holds.  The model parameters are the sequence of the       *)
(* gradients the optimizer has applied; a gradient is the sequence of the  *)
(* losses whose backward pass accumulated into it.                         *)
(***************************************************************************)
EXTENDS Integers, Sequences, FiniteSets, TLC

\* ---- bounds of the model ------------------------------------------------
MaxEpoch == 2
MaxBatchSize == 8
MaxTrainSize == 5
MaxTestSize == 3
MaxK == 4
MaxPositions == 2

\* ---- inputs -------------------------------------------------------------
\* --dataset is a free string (no choices= in the parser)
Datasets == {"cifar10", "mnist", "svhn"}
\* coordinates of codebook rows and of latent vectors (D = 2)
CodeCoords == {0, 10}
LatentCoords == {1, 5, 9}

\* ---- paths of the experiment directory -----------------------------------
experiment_root == "experiments/name"
config_path == "experiments/name/config.json"
experiment_log_path == "experiments/name/logs"
experiment_model_path == "experiments/name/models"
\* the event file SummaryWriter opens under the log directory
event_file == "experiments/name/logs/events.out.tfevents"

\* what may already be on disk when the script starts (experiments/ itself
\* is taken to exist, as mkdir() without parents=True needs it)
InitialDisks ==
  { {},
    {experiment_root},
    {experiment_root, config_path, experiment_log_path, experiment_model_path} }

VARIABLES
  dataset, num_epoch, batch_size, trainSize, testSize,   \* args and data/
  fs0, fs,                 \* paths on disk before the run, and now
  writer,                  \* SummaryWriter: sequence of records written
  pc,                      \* position in the script
  epochIt, epoch,          \* range(num_epoch) iterator and loop variable
  trainIt, testIt,         \* positions of the two DataLoader iterators
  mode,                    \* model.train() / model.eval()
  images, reconstruction,  \* locals of main, shared by both phases
  losses,                  \* the tuple returned by criterion
  grad, params,            \* .grad of the parameters, and the parameters
  train_metric_logger, val_metric_logger,
  saves,                   \* torch.save calls: <<path key, state_dict>>
  qCodebook, qLatent, qIndices, qQuantized, qpc   \* vector quantizer

argVars == <<dataset, num_epoch, batch_size, trainSize, testSize, fs0>>
loopVars == <<epochIt, epoch, trainIt, testIt, mode, images, reconstruction,
              losses, grad, params, train_metric_logger, val_metric_logger,
              saves>>
qVars == <<qCodebook, qLatent, qIndices, qQuantized, qpc>>
vars == <<argVars, fs, writer, pc, loopVars, qVars>>

\* ---- helpers --------------------------------------------------------------
\* DataLoader(dataset, batch_size) with drop_last=False: ceil(size / bs)
NumBatches(size, bs) == (size + bs - 1) \div bs

\* number of images in batch i (0-based) of a loader
BatchLen(size, bs, i) == IF (i + 1) * bs <= size THEN bs ELSE size - i * bs

\* DataLoader.batch_size of the two loaders
TrainBatchSize == batch_size
TestBatchSize == batch_size \div 4

Batch(phase, e, i, n) == [phase |-> phase, epoch |-> e, idx |-> i, n |-> n]
\* value of a local that has not been assigned yet
NoBatch == Batch("none", -1, -1, 0)

\* model(images): the reconstruction of a batch under the current parameters
Forward(imgs, p) == [of |-> imgs, params |-> p]

\* criterion(images, encoder_output, quantized, reconstruction)
Criterion(imgs, rec) ==
  [total_loss          |-> <<"total_loss", rec>>,
   reconstruction_loss |-> <<"reconstruction_loss", rec>>,
   vq_loss             |-> <<"vq_loss", rec>>,
   commitment_loss     |-> <<"commitment_loss", rec>>]

\* model.vector_quantizer.embeddings.weight, part of the parameters
Codebook(p) == <<"embeddings.weight", p>>

\* MeterLogger: reset() empties the meters, update(name, value, n) adds one
\* weighted value to the meter called name, write(epoch, phase) emits the
\* meters
MeterReset == <<>>
MeterUpdate(m, name, value, n) ==
  Append(m, [name |-> name, value |-> value, n |-> n])
MeterWrite(m, e, phase) ==
  [kind |-> "scalars", phase |-> phase, epoch |-> e, meters |-> m]
MeterNames == {"total_loss", "reconstruction_loss", "vq_loss"}

\* ImageLogger.write / VQEmbeddingLogger.write
ImageWrite(imgs, rec, e, phase) ==
  [kind |-> "image", phase |-> phase, epoch |-> e, images |-> imgs,
   reconstruction |-> rec]
VQWrite(weight, e) == [kind |-> "embedding", epoch |-> e, weight |-> weight]

\* ---- initial state ----------------------------------------------------------
LoopInit ==
  /\ epochIt = 0 /\ epoch = -1
  /\ trainIt = 0 /\ testIt = 0
  /\ mode = "train"
  /\ images = NoBatch
  /\ reconstruction = Forward(NoBatch, <<>>)
  /\ losses = Criterion(NoBatch, Forward(NoBatch, <<>>))
  /\ grad = <<>> /\ params = <<>>
  /\ train_metric_logger = MeterReset /\ val_metric_logger = MeterReset
  /\ saves = <<>>

QIdle ==
  /\ qCodebook = <<>> /\ qLatent = <<>> /\ qIndices = <<>>
  /\ qQuantized = <<>> /\ qpc = "idle"

\* batch_size // 4 must be positive for the test DataLoader to be built.
\* The sizes of the two datasets are what data/ holds.  The training loader
\* shuffles, and its RandomSampler refuses an empty dataset, so it yields at
\* least one batch; the test loader is sequential and yields none when the
\* test set is empty.
Init ==
  /\ dataset \in Datasets
  /\ num_epoch \in 0..MaxEpoch
  /\ batch_size \in {b \in 1..MaxBatchSize : b \div 4 >= 1}
  /\ trainSize \in 1..MaxTrainSize
  /\ testSize \in 0..MaxTestSize
  /\ fs0 \in InitialDisks
  /\ fs = fs0
  /\ writer = <<>>
  /\ pc = "mkroot"
  /\ LoopInit
  /\ QIdle

\* ---- __main__ block -----------------------------------------------------------
\* lines 135-138
MkRoot ==
  /\ pc = "mkroot"
  /\ fs' = fs \cup {experiment_root}
  /\ pc' = "config"
  /\ UNCHANGED <<argVars, writer, loopVars, qVars>>

\* lines 140-141
WriteConfig ==
  /\ pc = "config"
  /\ fs' = fs \cup {config_path}
  /\ pc' = "mklogs"
  /\ UNCHANGED <<argVars, writer, loopVars, qVars>>

\* lines 143-146
MkLogs ==
  /\ pc = "mklogs"
  /\ fs' = fs \cup {experiment_log_path}
  /\ pc' = "mkmodels"
  /\ UNCHANGED <<argVars, writer, loopVars, qVars>>

\* lines 148-151
MkModels ==
  /\ pc = "mkmodels"
  /\ fs' = fs \cup {experiment_model_path}
  /\ pc' = "writer"
  /\ UNCHANGED <<argVars, writer, loopVars, qVars>>

\* ---- main(args): set-up ---------------------------------------------------------
\* line 23: SummaryWriter(log_dir) opens its event file
CreateWriter ==
  /\ pc = "writer"
  /\ fs' = fs \cup {event_file}
  /\ pc' = "hparams"
  /\ UNCHANGED <<argVars, writer, loopVars, qVars>>

\* line 24
AddHparams ==
  /\ pc = "hparams"
  /\ writer' = Append(writer, [kind |-> "hparams"])
  /\ pc' = "dataset"
  /\ UNCHANGED <<argVars, fs, loopVars, qVars>>

\* lines 33-42
SelectDataset ==
  /\ pc = "dataset"
  /\ pc' = IF dataset \in {"cifar10", "mnist"} THEN "loaders" ELSE "ValueError"
  /\ UNCHANGED <<argVars, fs, writer, loopVars, qVars>>

\* lines 44-60: loaders, model, criterion, optimizer, loggers
BuildLoaders ==
  /\ pc = "loaders"
  /\ train_metric_logger' = MeterReset
  /\ val_metric_logger' = MeterReset
  /\ pc' = "epoch"
  /\ UNCHANGED <<argVars, fs, writer, epochIt, epoch, trainIt, testIt, mode,
                 images, reconstruction, losses, grad, params, saves, qVars>>

\* ---- main(args): epoch loop ------------------------------------------------------
\* variant: the loop runs one epoch too many
EpochNextOneMore ==
  /\ pc = "epoch"
  /\ IF epochIt <= num_epoch
       THEN /\ epoch' = epochIt
            /\ epochIt' = epochIt + 1
            /\ pc' = "train_reset"
       ELSE /\ pc' = "done"
            /\ UNCHANGED <<epoch, epochIt>>
  /\ UNCHANGED <<argVars, fs, writer, trainIt, testIt, mode, images,
                 reconstruction, losses, grad, params, train_metric_logger,
                 val_metric_logger, saves, qVars>>

\* line 62: for epoch in range(args.num_epoch)
EpochNext ==
  /\ pc = "epoch"
  /\ IF epochIt < num_epoch
       THEN /\ epoch' = epochIt
            /\ epochIt' = epochIt + 1
            /\ pc' = "train_reset"
       ELSE /\ pc' = "done"
            /\ UNCHANGED <<epoch, epochIt>>
  /\ UNCHANGED <<argVars, fs, writer, trainIt, testIt, mode, images,
                 reconstruction, losses, grad, params, train_metric_logger,
                 val_metric_logger, saves, qVars>>

\* variant: the training accumulator is not reset
TrainResetKeepsMeters ==
  /\ pc = "train_reset"
  /\ mode' = "train"
  /\ trainIt' = 0
  /\ pc' = "train_next"
  /\ UNCHANGED <<argVars, fs, writer, epochIt, epoch, testIt, images,
                 reconstruction, losses, grad, params, train_metric_logger,
                 val_metric_logger, saves, qVars>>

\* lines 64-65, and the iter() of line 66
TrainReset ==
  /\ pc = "train_reset"
  /\ train_metric_logger' = MeterReset
  /\ mode' = "train"
  /\ trainIt' = 0
  /\ pc' = "train_next"
  /\ UNCHANGED <<argVars, fs, writer, epochIt, epoch, testIt, images,
                 reconstruction, losses, grad, params, val_metric_logger,
                 saves, qVars>>

\* lines 66-68: next batch of train_dataloader, or the end of the loop
TrainNext ==
  /\ pc = "train_next"
  /\ IF trainIt < NumBatches(trainSize, TrainBatchSize)
       THEN /\ images' = Batch("train", epoch, trainIt,
                               BatchLen(trainSize, TrainBatchSize, trainIt))
            /\ trainIt' = trainIt + 1
            /\ pc' = "train_forward"
       ELSE /\ pc' = "train_write"
            /\ UNCHANGED <<images, trainIt>>
  /\ UNCHANGED <<argVars, fs, writer, epochIt, epoch, testIt, mode,
                 reconstruction, losses, grad, params, train_metric_logger,
                 val_metric_logger, saves, qVars>>

\* line 70
TrainForward ==
  /\ pc = "train_forward"
  /\ reconstruction' = Forward(images, params)
  /\ pc' = "train_criterion"
  /\ UNCHANGED <<argVars, fs, writer, epochIt, epoch, trainIt, testIt, mode,
                 images, losses, grad, params, train_metric_logger,
                 val_metric_logger, saves, qVars>>

\* lines 71-72
TrainCriterion ==
  /\ pc = "train_criterion"
  /\ losses' = Criterion(images, reconstruction)
  /\ pc' = "zero_grad"
  /\ UNCHANGED <<argVars, fs, writer, epochIt, epoch, trainIt, testIt, mode,
                 images, reconstruction, grad, params, train_metric_logger,
                 val_metric_logger, saves, qVars>>

\* variant: the gradients are not zeroed
ZeroGradOmitted ==
  /\ pc = "zero_grad"
  /\ pc' = "backward"
  /\ UNCHANGED <<argVars, fs, writer, epochIt, epoch, trainIt, testIt, mode,
                 images, reconstruction, losses, grad, params,
                 train_metric_logger, val_metric_logger, saves, qVars>>

\* line 74
ZeroGrad ==
  /\ pc = "zero_grad"
  /\ grad' = <<>>
  /\ pc' = "backward"
  /\ UNCHANGED <<argVars, fs, writer, epochIt, epoch, trainIt, testIt, mode,
                 images, reconstruction, losses, params, train_metric_logger,
                 val_metric_logger, saves, qVars>>

\* line 75: backward() adds the gradient of the loss to .grad
Backward ==
  /\ pc = "backward"
  /\ grad' = Append(grad, losses.total_loss)
  /\ pc' = "step"
  /\ UNCHANGED <<argVars, fs, writer, epochIt, epoch, trainIt, testIt, mode,
                 images, reconstruction, losses, params, train_metric_logger,
                 val_metric_logger, saves, qVars>>

\* line 76
Step ==
  /\ pc = "step"
  /\ params' = Append(params, grad)
  /\ pc' = "train_update"
  /\ UNCHANGED <<argVars, fs, writer, epochIt, epoch, trainIt, testIt, mode,
                 images, reconstruction, losses, grad, train_metric_logger,
                 val_metric_logger, saves, qVars>>

\* variant: the vq loss is not recorded
TrainUpdateNoVq ==
  /\ pc = "train_update"
  /\ train_metric_logger' =
       MeterUpdate(
         MeterUpdate(train_metric_logger,
                     "total_loss", losses.total_loss, TrainBatchSize),
         "reconstruction_loss", losses.reconstruction_loss, TrainBatchSize)
  /\ pc' = "train_next"
  /\ UNCHANGED <<argVars, fs, writer, epochIt, epoch, trainIt, testIt, mode,
                 images, reconstruction, losses, grad, params,
                 val_metric_logger, saves, qVars>>

\* lines 78-80
TrainUpdate ==
  /\ pc = "train_update"
  /\ train_metric_logger' =
       MeterUpdate(
         MeterUpdate(
           MeterUpdate(train_metric_logger,
                       "total_loss", losses.total_loss, TrainBatchSize),
           "reconstruction_loss", losses.reconstruction_loss, TrainBatchSize),
         "vq_loss", losses.vq_loss, TrainBatchSize)
  /\ pc' = "train_next"
  /\ UNCHANGED <<argVars, fs, writer, epochIt, epoch, trainIt, testIt, mode,
                 images, reconstruction, losses, grad, params,
                 val_metric_logger, saves, qVars>>

\* line 83
TrainWrite ==
  /\ pc = "train_write"
  /\ writer' = Append(writer, MeterWrite(train_metric_logger, epoch, "train"))
  /\ pc' = "train_image"
  /\ UNCHANGED <<argVars, fs, loopVars, qVars>>

\* line 84
TrainImage ==
  /\ pc = "train_image"
  /\ writer' = Append(writer, ImageWrite(images, reconstruction, epoch, "train"))
  /\ pc' = "vq_write"
  /\ UNCHANGED <<argVars, fs, loopVars, qVars>>

\* variant: the checkpoint is taken right after the training phase
VQLogSkipsEval ==
  /\ pc = "vq_write"
  /\ writer' = Append(writer, VQWrite(Codebook(params), epoch))
  /\ pc' = "checkpoint"
  /\ UNCHANGED <<argVars, fs, loopVars, qVars>>

\* line 85
VQLog ==
  /\ pc = "vq_write"
  /\ writer' = Append(writer, VQWrite(Codebook(params), epoch))
  /\ pc' = "val_reset"
  /\ UNCHANGED <<argVars, fs, loopVars, qVars>>

\* lines 87-88, and the iter() of line 89
ValReset ==
  /\ pc = "val_reset"
  /\ val_metric_logger' = MeterReset
  /\ mode' = "eval"
  /\ testIt' = 0
  /\ pc' = "val_next"
  /\ UNCHANGED <<argVars, fs, writer, epochIt, epoch, trainIt, images,
                 reconstruction, losses, grad, params, train_metric_logger,
                 saves, qVars>>

\* lines 89-91: next batch of test_dataloader, or the end of the loop
ValNext ==
  /\ pc = "val_next"
  /\ IF testIt < NumBatches(testSize, TestBatchSize)
       THEN /\ images' = Batch("val", epoch, testIt,
                               BatchLen(testSize, TestBatchSize, testIt))
            /\ testIt' = testIt + 1
            /\ pc' = "val_forward"
       ELSE /\ pc' = "val_write"
            /\ UNCHANGED <<images, testIt>>
  /\ UNCHANGED <<argVars, fs, writer, epochIt, epoch, trainIt, mode,
                 reconstruction, losses, grad, params, train_metric_logger,
                 val_metric_logger, saves, qVars>>

\* lines 93-94: forward pass under torch.no_grad()
ValForward ==
  /\ pc = "val_forward"
  /\ reconstruction' = Forward(images, params)
  /\ pc' = "val_criterion"
  /\ UNCHANGED <<argVars, fs, writer, epochIt, epoch, trainIt, testIt, mode,
                 images, losses, grad, params, train_metric_logger,
                 val_metric_logger, saves, qVars>>

\* lines 95-96
ValCriterion ==
  /\ pc = "val_criterion"
  /\ losses' = Criterion(images, reconstruction)
  /\ pc' = "val_update"
  /\ UNCHANGED <<argVars, fs, writer, epochIt, epoch, trainIt, testIt, mode,
                 images, reconstruction, grad, params, train_metric_logger,
                 val_metric_logger, saves, qVars>>

\* variant: the evaluation loop also applies an optimizer step
ValUpdateSteps ==
  /\ pc = "val_update"
  /\ val_metric_logger' =
       MeterUpdate(
         MeterUpdate(
           MeterUpdate(val_metric_logger,
                       "total_loss", losses.total_loss, TestBatchSize),
           "reconstruction_loss", losses.reconstruction_loss, TestBatchSize),
         "vq_loss", losses.vq_loss, TestBatchSize)
  /\ params' = Append(params, grad)
  /\ pc' = "val_next"
  /\ UNCHANGED <<argVars, fs, writer, epochIt, epoch, trainIt, testIt, mode,
                 images, reconstruction, losses, grad,
                 train_metric_logger, saves, qVars>>

\* lines 98-100
ValUpdate ==
  /\ pc = "val_update"
  /\ val_metric_logger' =
       MeterUpdate(
         MeterUpdate(
           MeterUpdate(val_metric_logger,
                       "total_loss", losses.total_loss, TestBatchSize),
           "reconstruction_loss", losses.reconstruction_loss, TestBatchSize),
         "vq_loss", losses.vq_loss, TestBatchSize)
  /\ pc' = "val_next"
  /\ UNCHANGED <<argVars, fs, writer, epochIt, epoch, trainIt, testIt, mode,
                 images, reconstruction, losses, grad, params,
                 train_metric_logger, saves, qVars>>

\* line 103
ValWrite ==
  /\ pc = "val_write"
  /\ writer' = Append(writer, MeterWrite(val_metric_logger, epoch, "val"))
  /\ pc' = "val_image"
  /\ UNCHANGED <<argVars, fs, loopVars, qVars>>

\* line 104
ValImage ==
  /\ pc = "val_image"
  /\ writer' = Append(writer, ImageWrite(images, reconstruction, epoch, "val"))
  /\ pc' = "checkpoint"
  /\ UNCHANGED <<argVars, fs, loopVars, qVars>>

\* lines 107-108: torch.save(model.state_dict(), models/<epoch>.pth)
Checkpoint ==
  /\ pc = "checkpoint"
  /\ saves' = Append(saves, [key |-> epoch, state_dict |-> params])
  /\ pc' = "epoch"
  /\ UNCHANGED <<argVars, fs, writer, epochIt, epoch, trainIt, testIt, mode,
                 images, reconstruction, losses, grad, params,
                 train_metric_logger, val_metric_logger, qVars>>

Next ==
  \/ MkRoot \/ WriteConfig \/ MkLogs \/ MkModels
  \/ CreateWriter \/ AddHparams \/ SelectDataset \/ BuildLoaders
  \/ EpochNext
  \/ TrainReset \/ TrainNext \/ TrainForward \/ TrainCriterion
  \/ ZeroGrad \/ Backward \/ Step \/ TrainUpdate
  \/ TrainWrite \/ TrainImage \/ VQLog
  \/ ValReset \/ ValNext \/ ValForward \/ ValCriterion \/ ValUpdate
  \/ ValWrite \/ ValImage \/ Checkpoint

Spec == Init /\ [][Next]_vars

\* ---- vector quantizer ------------------------------------------------------------
\* the vectors over a set of coordinates (embedding_dim = 2)
Vectors(coords) == {<<x, y>> : x \in coords, y \in coords}

\* sequences over S of length lo..hi
SeqsOf(S, lo, hi) == UNION {[1..n -> S] : n \in lo..hi}

\* squared Euclidean distance between a latent vector and a codebook row
SqDist(z, row) ==
  (z[1] - row[1]) * (z[1] - row[1]) + (z[2] - row[2]) * (z[2] - row[2])

\* distance of a latent vector to every row of the codebook
Distances(cb, z) == [k \in 1..Len(cb) |-> SqDist(z, cb[k])]

\* variant: on equal distances the later row wins
RECURSIVE ArgMinFromLast(_, _, _)
ArgMinFromLast(d, k, best) ==
  IF k > Len(d) THEN best
  ELSE ArgMinFromLast(d, k + 1, IF d[k] <= d[best] THEN k ELSE best)

\* argmin as a scan over the rows: a later row replaces the best one only
\* when it is strictly closer
RECURSIVE ArgMinFrom(_, _, _)
ArgMinFrom(d, k, best) ==
  IF k > Len(d) THEN best
  ELSE ArgMinFrom(d, k + 1, IF d[k] < d[best] THEN k ELSE best)

\* index in [0, K) of the selected row
ArgMin(d) == ArgMinFrom(d, 2, 1) - 1

InitQ ==
  /\ dataset = "cifar10" /\ num_epoch = 0 /\ batch_size = 4
  /\ trainSize = 1 /\ testSize = 0
  /\ fs0 = {} /\ fs = {}
  /\ writer = <<>>
  /\ pc = "mkroot"
  /\ LoopInit
  /\ qCodebook \in SeqsOf(Vectors(CodeCoords), 1, MaxK)
  /\ qLatent \in SeqsOf(Vectors(LatentCoords), 1, MaxPositions)
  /\ qIndices = <<>> /\ qQuantized = <<>>
  /\ qpc = "ready"

\* quantize(latent_grid): every position independently
Quantize ==
  /\ qpc = "ready"
  /\ qIndices' = [p \in 1..Len(qLatent) |-> ArgMin(Distances(qCodebook, qLatent[p]))]
  /\ qQuantized' = [p \in 1..Len(qLatent) |-> qCodebook[qIndices'[p] + 1]]
  /\ qpc' = "done"
  /\ UNCHANGED <<argVars, fs, writer, pc, loopVars, qCodebook, qLatent>>

NextQ == Quantize

SpecQ == InitQ /\ [][NextQ]_vars

\* ---- properties -------------------------------------------------------------------
NumTrainBatches == NumBatches(trainSize, TrainBatchSize)
NumTestBatches == NumBatches(testSize, TestBatchSize)

\* the batch a loss value was computed on
BatchOf(loss) == loss[2].of

EvalPcs == {"val_reset", "val_next", "val_forward", "val_criterion",
            "val_update", "val_write", "val_image", "checkpoint"}

\* the optimizer has applied a gradient of training batch i of epoch e
Stepped(e, i) ==
  \E k \in DOMAIN params : \E j \in DOMAIN params[k] :
    /\ BatchOf(params[k][j]).phase = "train"
    /\ BatchOf(params[k][j]).epoch = e
    /\ BatchOf(params[k][j]).idx = i

TrainStepped(e) == \A i \in 0..(NumTrainBatches - 1) : Stepped(e, i)

\* the evaluation phase has recorded batch i of epoch e
Evaluated(e, i) ==
  \E j \in DOMAIN val_metric_logger :
    /\ BatchOf(val_metric_logger[j].value).phase = "val"
    /\ BatchOf(val_metric_logger[j].value).epoch = e
    /\ BatchOf(val_metric_logger[j].value).idx = i

EvalAfterTrain == pc \in EvalPcs => TrainStepped(epoch)

TrainAfterCheckpoint ==
  (images.phase = "train" /\ images.epoch > 0)
    => \E k \in DOMAIN saves : saves[k].key = images.epoch - 1

CheckpointAfterEval ==
  Len(saves') > Len(saves) =>
    /\ saves'[Len(saves')].key = epoch
    /\ TrainStepped(epoch)
    /\ \A i \in 0..(NumTestBatches - 1) : Evaluated(epoch, i)
    /\ \A i \in 0..(NumTrainBatches - 1) : ~Stepped(epoch + 1, i)
    /\ ~(images.phase = "train" /\ images.epoch = epoch + 1)

\* C1: in every epoch the evaluation phase runs only once every training
\* batch of that epoch has had its optimizer step; the checkpoint of the
\* epoch is written only once the evaluation phase has recorded its last
\* batch, and no training batch of the next epoch is fetched before it.
C1_Ordering ==
  [](EvalAfterTrain /\ TrainAfterCheckpoint) /\ [][CheckpointAfterEval]_vars

C1_Witness ==
  /\ Len(saves) = 2
  /\ NumTrainBatches >= 2
  /\ NumTestBatches >= 2

\* the embedding record logged for epoch e
EmbeddingLogged(e, weight) ==
  \E k \in DOMAIN writer :
    /\ writer[k].kind = "embedding"
    /\ writer[k].epoch = e
    /\ writer[k].weight = weight

\* C2: the evaluation phase updates no parameter: throughout it the
\* parameters are those logged at the end of the epoch's training phase,
\* which are the result of exactly the epoch's training steps, and the
\* checkpoint of an epoch holds them, so its codebook is the logged one.
C2_EvalReadOnly ==
  /\ pc \in EvalPcs =>
       /\ EmbeddingLogged(epoch, Codebook(params))
       /\ Len(params) = (epoch + 1) * NumTrainBatches
  /\ \A k \in DOMAIN saves :
       /\ EmbeddingLogged(saves[k].key, Codebook(saves[k].state_dict))
       /\ Len(saves[k].state_dict) = (saves[k].key + 1) * NumTrainBatches
       /\ BatchOf(saves[k].state_dict[Len(saves[k].state_dict)][1]).epoch
            = saves[k].key

C2_Witness ==
  /\ Len(saves) = 2
  /\ NumTestBatches >= 2
  /\ saves[1].state_dict # saves[2].state_dict

\* C3: a run with num_epoch = E writes the checkpoints 0, 1, ... in order,
\* one per epoch and never more than E; when the loop ends exactly E epochs
\* of training steps and E checkpoints have happened; with E = 0 there is no
\* training step and no checkpoint.
C3_EpochsAndCheckpoints ==
  /\ Len(saves) <= num_epoch
  /\ \A k \in DOMAIN saves : saves[k].key = k - 1
  /\ epochIt <= num_epoch
  /\ pc = "done" =>
       /\ Len(saves) = num_epoch
       /\ epochIt = num_epoch
       /\ Len(params) = num_epoch * NumTrainBatches
  /\ num_epoch = 0 => (params = <<>> /\ grad = <<>> /\ saves = <<>>)

C3_Witness == pc = "done" /\ num_epoch >= 2 /\ Len(saves) = num_epoch

\* C4: when the dataset name is neither cifar10 nor mnist the run fails
\* without having created anything: the disk is as before the run and the
\* summary writer has logged nothing.
C4_NoPartialState == pc = "ValueError" => (fs = fs0 /\ writer = <<>>)

\* C5: a training batch runs forward pass, criterion, zero_grad, backward,
\* step in this order; the k-th optimizer step applies the gradient of the
\* k-th training batch alone, computed from the forward pass on the
\* parameters the step updates, and each batch has exactly one step.
C5_StepPerBatch ==
  /\ pc \in {"zero_grad", "backward", "step"} =>
       losses = Criterion(images, Forward(images, params))
  /\ pc = "backward" => grad = <<>>
  /\ pc = "step" => grad = <<losses.total_loss>>
  /\ pc = "train_update" => params[Len(params)] = <<losses.total_loss>>
  /\ \A k \in DOMAIN params :
       /\ Len(params[k]) = 1
       /\ params[k][1][1] = "total_loss"
       /\ params[k][1][2].params = SubSeq(params, 1, k - 1)
       /\ BatchOf(params[k][1]).phase = "train"
       /\ BatchOf(params[k][1]).epoch = (k - 1) \div NumTrainBatches
       /\ BatchOf(params[k][1]).idx = (k - 1) % NumTrainBatches

C5_Witness == pc = "train_update" /\ Len(params) >= 3 /\ trainIt >= 2

\* C6: every value recorded by a metric accumulator is weighted by the
\* number of images of the batch it was computed on.
C6_WeightIsBatchLen ==
  /\ \A j \in DOMAIN train_metric_logger :
       train_metric_logger[j].n = BatchOf(train_metric_logger[j].value).n
  /\ \A j \in DOMAIN val_metric_logger :
       val_metric_logger[j].n = BatchOf(val_metric_logger[j].value).n

\* the loss term called name of the current batch is in accumulator m
Fed(m, name) ==
  \E j \in DOMAIN m : m[j].name = name /\ m[j].value = losses[name]

AfterTrainUpdate == pc = "train_next" /\ trainIt > 0
AfterValUpdate == pc = "val_next" /\ testIt > 0

\* C7 as stated: after a batch's updates all four loss terms of the batch
\* are in the phase's accumulator.
C7_AllFourFed ==
  /\ AfterTrainUpdate =>
       \A name \in MeterNames \cup {"commitment_loss"} :
         Fed(train_metric_logger, name)
  /\ AfterValUpdate =>
       \A name \in MeterNames \cup {"commitment_loss"} :
         Fed(val_metric_logger, name)

\* C7 (amended): after a batch's updates the total, reconstruction and vq
\* loss of the batch are in the phase's accumulator, and no accumulator ever
\* holds a commitment loss.
C7_ThreeFed ==
  /\ AfterTrainUpdate =>
       \A name \in MeterNames : Fed(train_metric_logger, name)
  /\ AfterValUpdate =>
       \A name \in MeterNames : Fed(val_metric_logger, name)
  /\ \A j \in DOMAIN train_metric_logger :
       /\ train_metric_logger[j].name \in MeterNames
       /\ train_metric_logger[j].value[1] = train_metric_logger[j].name
  /\ \A j \in DOMAIN val_metric_logger :
       /\ val_metric_logger[j].name \in MeterNames
       /\ val_metric_logger[j].value[1] = val_metric_logger[j].name

C7_Witness == AfterValUpdate /\ testIt >= 2 /\ Len(train_metric_logger) >= 6

\* C8: at every position the quantizer selects an index in [0, K) whose row
\* is at minimum squared distance from the latent vector, the lowest such
\* index when several rows are at the minimum, and outputs that row; on the
\* rows [[0,0],[10,0],[0,10],[10,10]], [1,1] gives 0 and [9,9] gives 3.
C8_NearestLowestIndex ==
  qpc = "done" =>
    /\ Len(qIndices) = Len(qLatent)
    /\ Len(qQuantized) = Len(qLatent)
    /\ \A p \in DOMAIN qLatent :
         /\ qIndices[p] \in 0..(Len(qCodebook) - 1)
         /\ \A j \in 0..(Len(qCodebook) - 1) :
              /\ SqDist(qLatent[p], qCodebook[qIndices[p] + 1])
                   <= SqDist(qLatent[p], qCodebook[j + 1])
              /\ j < qIndices[p] =>
                   SqDist(qLatent[p], qCodebook[qIndices[p] + 1])
                     < SqDist(qLatent[p], qCodebook[j + 1])
         /\ qQuantized[p] = qCodebook[qIndices[p] + 1]
         /\ qCodebook = <<<<0, 0>>, <<10, 0>>, <<0, 10>>, <<10, 10>>>> =>
              /\ qLatent[p] = <<1, 1>> =>
                   (qIndices[p] = 0 /\ qQuantized[p] = <<0, 0>>)
              /\ qLatent[p] = <<9, 9>> =>
                   (qIndices[p] = 3 /\ qQuantized[p] = <<10, 10>>)

\* the example codebook, [9,9] at the first position and, at the second, a
\* vector at the same distance from all four rows
C8_Witness ==
  /\ qpc = "done"
  /\ qCodebook = <<<<0, 0>>, <<10, 0>>, <<0, 10>>, <<10, 10>>>>
  /\ qLatent = <<<<9, 9>>, <<5, 5>>>>
  /\ qIndices = <<3, 0>>

ScalarsOf(e, ph) ==
  {k \in DOMAIN writer :
     /\ writer[k].kind = "scalars"
     /\ writer[k].epoch = e
     /\ writer[k].phase = ph}

PhaseBatches(ph) == IF ph = "train" THEN NumTrainBatches ELSE NumTestBatches

\* C10: the averages written for (epoch e, phase p) are computed from the
\* batches of phase p of epoch e, each once and in order, and from nothing
\* else; they are written once, and by the time the epoch's checkpoint is
\* written both phases have theirs.
C10_MetersPerPhase ==
  /\ \A k \in DOMAIN writer :
       writer[k].kind = "scalars" =>
         /\ Len(writer[k].meters) = 3 * PhaseBatches(writer[k].phase)
         /\ \A j \in DOMAIN writer[k].meters :
              /\ BatchOf(writer[k].meters[j].value).phase = writer[k].phase
              /\ BatchOf(writer[k].meters[j].value).epoch = writer[k].epoch
              /\ BatchOf(writer[k].meters[j].value).idx = (j - 1) \div 3
         /\ Cardinality(ScalarsOf(writer[k].epoch, writer[k].phase)) = 1
  /\ \A k \in DOMAIN saves :
       /\ Cardinality(ScalarsOf(saves[k].key, "train")) = 1
       /\ Cardinality(ScalarsOf(saves[k].key, "val")) = 1

C10_Witness ==
  /\ Len(saves) = 2
  /\ NumTrainBatches >= 2
  /\ NumTestBatches >= 2
  /\ pc = "done"

====
